---- MODULE Spec2Model ----
(***************************************************************************)
(* The agent loop of voiceagent/curoser.py (main): listen, transcribe,     *)
(* call the language model until it emits an output step, dispatch tools,  *)
(* speak the answer.  The loop is cut at its blocking external calls:      *)
(*   Listening    r.listen / r.recognize_google          (lines 139-147)   *)
(*   Reasoning    client.chat.completions.create + parse (lines 152-176)   *)
(*   Dispatching  available_tools[tool_name](tool_in)    (lines 185-196)   *)
(*   Speaking     asyncio.run(tts(...))                  (lines 199-207)   *)
(* tts (lines 44-65) runs inside Speaking, one step per awaited call: the   *)
(* request, each chunk of the response, the end of the stream.             *)
(* Texts are sequences of character codes; an Optional[str] is a sequence  *)
(* of length 0 (None) or 1 (the string).                                   *)
(***************************************************************************)
EXTENDS Integers, Sequences, FiniteSets, TLC

VARIABLES message_history, pc, raw_json_str, parsed_result, messages,
          event, handler, safe_speech,
          tts_pc, speech, header_skipped, written, player, tts_calls

\* the coroutine tts: its position, its argument, its locals and the audio
\* output it opened
ttsvars == <<tts_pc, speech, header_skipped, written, player>>

vars == <<message_history, pc, raw_json_str, parsed_result, messages,
          event, handler, safe_speech, ttsvars, tts_calls>>

----------------------------------------------------------------------------
(* Bounds *)

\* longest conversation history the model lets the loop build; a step that
\* continues the cycle leaves room for the output step that ends it
MaxHistory == 6

\* most chunks one synthesized response is streamed in
MaxChunks == 2

\* longest text handed to tts on its own
MaxSpeechLen == 202

----------------------------------------------------------------------------
(* Values *)

None == <<>>
Some(v) == <<v>>

\* tts truncates its text to this many characters
TtsLimit == 200

\* size of the WAV header tts strips
WavHeader == 44

\* sizes of the chunks response.iter_bytes() can yield
ChunkSizes == {0, WavHeader, 100}

SYSTEM_PROMPT == <<0>>

\* what the recogniser can return for an utterance
Utterances == {<<1>>}

\* free text the model can put in a step
ContentText == <<2>>
CityText == <<3>>
CmdText == <<4>>

\* what the weather endpoint / a subprocess can send back
WeatherText == <<5>>
CmdOutput == <<6>>

\* StepModel: the fields a reply carries.  json is FALSE for text that is not a
\* JSON object; typed is FALSE when a present field is not a JSON string.
Raw(json, typed, step, content, tool, input) ==
    [json |-> json, typed |-> typed, step |-> step, content |-> content,
     tool |-> tool, input |-> input]

NoReply == Raw(FALSE, FALSE, None, None, None, None)

RawReplies ==
    { Raw(FALSE, TRUE, None, None, None, None),
      Raw(TRUE, TRUE, None, Some(ContentText), None, None),
      Raw(TRUE, FALSE, Some("plan"), Some(ContentText), None, None),
      Raw(TRUE, TRUE, Some("plan"), Some(ContentText), None, None),
      Raw(TRUE, TRUE, Some("foo"), Some(ContentText), None, None),
      Raw(TRUE, TRUE, Some("tool"), None, Some("get_weather"), Some(CityText)),
      Raw(TRUE, TRUE, Some("tool"), None, Some("get_weather"), None),
      Raw(TRUE, TRUE, Some("tool"), None, Some("run_command"), Some(CmdText)),
      Raw(TRUE, TRUE, Some("Tool"), None, Some("run_command"), None),
      Raw(TRUE, TRUE, Some("tool"), None, Some("nope"), Some(CmdText)),
      Raw(TRUE, TRUE, Some("TOOL"), None, None, None),
      Raw(TRUE, TRUE, Some("output"), Some(ContentText), None, None),
      Raw(TRUE, TRUE, Some("OUTPUT"), None, None, None) }

\* str.lower() on the step names that occur
Lower(s) ==
    CASE s \in {"plan", "Plan", "PLAN"} -> "plan"
      [] s \in {"tool", "Tool", "TOOL"} -> "tool"
      [] s \in {"output", "Output", "OUTPUT"} -> "output"
      [] OTHER -> s

\* StepModel.model_validate_json succeeds: a JSON object whose step is present
\* and whose present fields are strings
Validates(raw) == raw.json /\ raw.typed /\ raw.step # None

step_type(raw) == Lower(raw.step[1])

available_tools == {"get_weather", "run_command"}

\* an f-string: its template and the values substituted into it
Fmt(template, args) == [template |-> template, args |-> args]

ToolNotFound == Fmt("Error: Tool not found", <<>>)

\* variant: the text is submitted untruncated
Slice_Whole(s, n) == s

\* speech[:200]
Slice(s, n) == SubSeq(s, 1, IF Len(s) < n THEN Len(s) ELSE n)

----------------------------------------------------------------------------
(* Turns *)

Turn(role, content) == [role |-> role, content |-> content]

\* content is a tagged value: the prompt, a transcript, a raw reply or the
\* JSON object json.dumps encodes
SystemTurn == Turn("system", [tag |-> "text", text |-> SYSTEM_PROMPT, raw |-> NoReply, obs |-> ToolNotFound])
UserTurn(user_query) == Turn("user", [tag |-> "text", text |-> user_query, raw |-> NoReply, obs |-> ToolNotFound])
AssistantTurn(raw) == Turn("assistant", [tag |-> "raw", text |-> <<>>, raw |-> raw, obs |-> ToolNotFound])
ObservationTurn(tool_output) == Turn("user", [tag |-> "observe", text |-> <<>>, raw |-> NoReply, obs |-> tool_output])

InitialHistory == <<SystemTurn>>

\* variant: the history is rebuilt as an empty list
ResetHistory_Empty == <<>>

ResetHistory == <<SystemTurn>>

----------------------------------------------------------------------------
Init ==
    /\ message_history = InitialHistory
    /\ pc = "Listening"
    /\ raw_json_str = NoReply
    /\ parsed_result = NoReply
    /\ messages = <<>>
    /\ event = "start"
    /\ handler = "none"
    /\ safe_speech = None
    /\ tts_pc = "idle"
    /\ speech = None
    /\ header_skipped = FALSE
    /\ written = <<>>
    /\ player = "none"
    /\ tts_calls = 0

----------------------------------------------------------------------------
(* The except clauses of the outer loop *)

\* the statements following the inner loop or an except clause: back to r.listen
Relisten(ev, h) ==
    /\ pc' = "Listening"
    /\ event' = ev
    /\ handler' = h

\* except Exception: the history is rebuilt from the system prompt
ErrorReset(ev) ==
    /\ message_history' = ResetHistory
    /\ Relisten(ev, "Exception")

----------------------------------------------------------------------------
(* Listening *)

\* recognize_google returns a transcript: the user turn is appended
ListenOk(user_query) ==
    /\ pc = "Listening"
    /\ Len(message_history) + 1 < MaxHistory
    /\ message_history' = Append(message_history, UserTurn(user_query))
    /\ pc' = "Reasoning"
    /\ event' = "recognized"
    /\ handler' = "none"
    /\ tts_calls' = 0
    /\ UNCHANGED <<raw_json_str, parsed_result, messages, safe_speech, ttsvars>>

\* variant: an empty transcript is appended when nothing was recognised
ListenSilence_Appends ==
    /\ pc = "Listening"
    /\ message_history' = Append(message_history, UserTurn(<<>>))
    /\ pc' = "Listening"
    /\ event' = "no_speech"
    /\ handler' = "UnknownValueError"
    /\ UNCHANGED <<raw_json_str, parsed_result, messages, safe_speech, ttsvars, tts_calls>>

\* except sr.UnknownValueError
ListenSilence ==
    /\ pc = "Listening"
    /\ Relisten("no_speech", "UnknownValueError")
    /\ UNCHANGED <<message_history, raw_json_str, parsed_result, messages, safe_speech, ttsvars, tts_calls>>

\* variant: no except clause for sr.RequestError, it reaches except Exception
ListenRequestError_Resets ==
    /\ pc = "Listening"
    /\ message_history' = <<SystemTurn>>
    /\ pc' = "Listening"
    /\ event' = "service_unreachable"
    /\ handler' = "Exception"
    /\ UNCHANGED <<raw_json_str, parsed_result, messages, safe_speech, ttsvars, tts_calls>>

\* except sr.RequestError
ListenRequestError ==
    /\ pc = "Listening"
    /\ Relisten("service_unreachable", "RequestError")
    /\ UNCHANGED <<message_history, raw_json_str, parsed_result, messages, safe_speech, ttsvars, tts_calls>>

\* r.listen or recognize_google raises anything else
ListenException ==
    /\ pc = "Listening"
    /\ ErrorReset("listen_exception")
    /\ UNCHANGED <<raw_json_str, parsed_result, messages, safe_speech, ttsvars, tts_calls>>

----------------------------------------------------------------------------
(* Reasoning *)

\* variant: only the system prompt and the newest turn are sent to the model
LLMCall_LastTurnOnly(raw) ==
    /\ pc = "Reasoning"
    /\ messages' = <<message_history[1], message_history[Len(message_history)]>>
    /\ raw_json_str' = raw
    /\ event' = "llm_reply"

\* client.chat.completions.create(messages=message_history) returns raw
LLMCall(raw) ==
    /\ pc = "Reasoning"
    /\ messages' = message_history
    /\ raw_json_str' = raw
    /\ event' = "llm_reply"

\* the reply is validated and appended as the assistant turn
Commit(raw) ==
    /\ Validates(raw)
    /\ message_history' = Append(message_history, AssistantTurn(raw))
    /\ parsed_result' = raw
    /\ handler' = "none"
    /\ UNCHANGED <<safe_speech, ttsvars, tts_calls>>

\* variant: a failed model call is only reported, the history is kept
LLMException_NoReset ==
    /\ pc = "Reasoning"
    /\ messages' = message_history
    /\ pc' = "Listening"
    /\ event' = "llm_exception"
    /\ handler' = "Exception"
    /\ UNCHANGED <<message_history, raw_json_str, parsed_result, safe_speech, ttsvars, tts_calls>>

\* client.chat.completions.create raises
LLMException ==
    /\ pc = "Reasoning"
    /\ messages' = message_history
    /\ ErrorReset("llm_exception")
    /\ UNCHANGED <<raw_json_str, parsed_result, safe_speech, ttsvars, tts_calls>>

\* variant: the reply is appended before it is validated
ParseFail_Appends(raw) ==
    /\ pc = "Reasoning"
    /\ messages' = message_history
    /\ raw_json_str' = raw
    /\ event' = "llm_reply"
    /\ ~Validates(raw)
    /\ message_history' = Append(message_history, AssistantTurn(raw))
    /\ pc' = "Listening"
    /\ handler' = "JSONParseError"
    /\ UNCHANGED <<parsed_result, safe_speech, ttsvars, tts_calls>>

\* variant: the unanswered user turn is removed when the cycle is abandoned
ParseFail_DropsUser(raw) ==
    /\ LLMCall(raw)
    /\ ~Validates(raw)
    /\ message_history' = SubSeq(message_history, 1, Len(message_history) - 1)
    /\ pc' = "Listening"
    /\ handler' = "JSONParseError"
    /\ UNCHANGED <<parsed_result, safe_speech, ttsvars, tts_calls>>

\* model_validate_json raises: break
ParseFail(raw) ==
    /\ LLMCall(raw)
    /\ ~Validates(raw)
    /\ pc' = "Listening"
    /\ handler' = "JSONParseError"
    /\ UNCHANGED <<message_history, parsed_result, safe_speech, ttsvars, tts_calls>>

\* variant: the plan is spoken as if it were the answer
PlanStep_Speaks(raw) ==
    /\ LLMCall(raw)
    /\ Len(message_history) + 1 < MaxHistory
    /\ Commit(raw)
    /\ step_type(raw) = "plan"
    /\ pc' = "Speaking"

\* step_type == "plan": continue
PlanStep(raw) ==
    /\ LLMCall(raw)
    /\ Len(message_history) + 1 < MaxHistory
    /\ Commit(raw)
    /\ step_type(raw) = "plan"
    /\ pc' = "Reasoning"

\* step_type == "tool": the tool is looked up next
ToolStep(raw) ==
    /\ LLMCall(raw)
    /\ Len(message_history) + 2 < MaxHistory
    /\ Commit(raw)
    /\ step_type(raw) = "tool"
    /\ pc' = "Dispatching"

\* variant: the output branch lacks its break and the model is called again
OutputStep_Continues(raw) ==
    /\ LLMCall(raw)
    /\ Len(message_history) < MaxHistory
    /\ Commit(raw)
    /\ step_type(raw) = "output"
    /\ pc' = "Reasoning"

\* step_type == "output": tts is called next
OutputStep(raw) ==
    /\ LLMCall(raw)
    /\ Len(message_history) < MaxHistory
    /\ Commit(raw)
    /\ step_type(raw) = "output"
    /\ pc' = "Speaking"

\* no branch of the if/elif chain matches: the inner loop runs again
OtherStep(raw) ==
    /\ LLMCall(raw)
    /\ Len(message_history) + 1 < MaxHistory
    /\ Commit(raw)
    /\ step_type(raw) \notin {"plan", "tool", "output"}
    /\ pc' = "Reasoning"

----------------------------------------------------------------------------
(* Dispatching *)

Returned(value) == [raised |-> FALSE, value |-> value]
Raised == [raised |-> TRUE, value |-> Fmt("", <<>>)]

\* get_weather: city.lower() is evaluated before the try block
get_weather(city) ==
    IF city = None
    THEN {Raised}
    ELSE { Returned(Fmt("The weather in {city} is {response.text.strip()}", <<city[1], WeatherText>>)),
           Returned(Fmt("Error: Could not get weather.", <<>>)),
           Returned(Fmt("Error: {str(e)}", <<>>)) }

\* run_command: everything is inside the try block; the CalledProcessError
\* handler decodes the captured output, which raises when it is not UTF-8
run_command(cmd) ==
    IF cmd = None
    THEN {Returned(Fmt("Error: {str(e)}", <<>>))}
    ELSE { Returned(Fmt("{result}", <<CmdOutput>>)),
           Returned(Fmt("Error executing command: {e.output}", <<CmdOutput>>)),
           Returned(Fmt("Error: {str(e)}", <<>>)),
           Raised }

\* tool_name in available_tools
Registered(tool_name) == tool_name # None /\ tool_name[1] \in available_tools

\* available_tools[tool_name](tool_in)
Invoke(name, tool_in) ==
    IF name = "get_weather" THEN get_weather(tool_in) ELSE run_command(tool_in)

\* variant: the observation is computed but never appended
Observe_Skips(tool_output, ev) ==
    /\ pc' = "Reasoning"
    /\ event' = ev
    /\ handler' = "none"
    /\ UNCHANGED <<message_history, raw_json_str, parsed_result, messages,
                   safe_speech, ttsvars, tts_calls>>

\* json.dumps of the observation is appended as a user turn: continue
Observe(tool_output, ev) ==
    /\ message_history' = Append(message_history, ObservationTurn(tool_output))
    /\ pc' = "Reasoning"
    /\ event' = ev
    /\ handler' = "none"
    /\ UNCHANGED <<raw_json_str, parsed_result, messages, safe_speech, ttsvars, tts_calls>>

\* variant: the registry is indexed without the membership test (KeyError)
DispatchNotFound_KeyError ==
    /\ pc = "Dispatching"
    /\ ~Registered(parsed_result.tool)
    /\ message_history' = <<SystemTurn>>
    /\ pc' = "Listening"
    /\ event' = "tool_exception"
    /\ handler' = "Exception"
    /\ UNCHANGED <<raw_json_str, parsed_result, messages, safe_speech, ttsvars, tts_calls>>

\* else: tool_output = "Error: Tool not found"
DispatchNotFound ==
    /\ pc = "Dispatching"
    /\ ~Registered(parsed_result.tool)
    /\ Observe(ToolNotFound, "tool_not_found")

\* the tool is called and returns
DispatchReturn ==
    /\ pc = "Dispatching"
    /\ Registered(parsed_result.tool)
    /\ \E r \in Invoke(parsed_result.tool[1], parsed_result.input) :
          /\ ~r.raised
          /\ Observe(r.value, "tool_returned")

\* the tool raises: the exception reaches except Exception
DispatchRaise ==
    /\ pc = "Dispatching"
    /\ Registered(parsed_result.tool)
    /\ \E r \in Invoke(parsed_result.tool[1], parsed_result.input) : r.raised
    /\ ErrorReset("tool_exception")
    /\ UNCHANGED <<raw_json_str, parsed_result, messages, safe_speech, ttsvars, tts_calls>>

----------------------------------------------------------------------------
(* Speaking *)

\* tts returns (or its exception is caught at line 64): its locals are gone,
\* the inner loop breaks and the outer loop listens again
TtsReturn(ev) ==
    /\ tts_pc' = "idle"
    /\ header_skipped' = FALSE
    /\ written' = <<>>
    /\ Relisten(ev, "none")
    /\ UNCHANGED <<message_history, raw_json_str, parsed_result, messages>>

\* asyncio.run(tts(speech=final_response)) is entered with a string
TtsCall ==
    /\ pc = "Speaking"
    /\ tts_pc = "idle"
    /\ parsed_result.content # None
    /\ speech' = parsed_result.content
    /\ safe_speech' = Some(Slice(parsed_result.content[1], TtsLimit))
    /\ tts_calls' = tts_calls + 1

\* variant: the coroutine is scheduled and the loop goes on without waiting
TtsStart_Background ==
    /\ TtsCall
    /\ tts_pc' = "streaming"
    /\ player' = "open"
    /\ header_skipped' = FALSE
    /\ written' = <<>>
    /\ event' = "tts_streaming"
    /\ handler' = "none"
    /\ pc' = "Listening"
    /\ UNCHANGED <<message_history, raw_json_str, parsed_result, messages>>

\* the request is accepted and the audio output is opened
TtsStart ==
    /\ TtsCall
    /\ tts_pc' = "streaming"
    /\ player' = "open"
    /\ header_skipped' = FALSE
    /\ written' = <<>>
    /\ event' = "tts_streaming"
    /\ handler' = "none"
    /\ UNCHANGED <<message_history, pc, raw_json_str, parsed_result, messages>>

\* the request, or LocalAudioPlayer(), raises: caught inside tts
TtsStartFail ==
    /\ TtsCall
    /\ player' = "none"
    /\ TtsReturn("audio_error")

\* what player.write receives for a chunk of the given size: the chunk without
\* its first 44 bytes until a header was skipped, the whole chunk afterwards
Write(size, skip) ==
    [size |-> size, dropped |-> IF skip THEN WavHeader ELSE 0]

\* async for chunk in response.iter_bytes(): one chunk is written
TtsChunk(size) ==
    /\ tts_pc = "streaming"
    /\ Len(written) < MaxChunks
    /\ LET skip == ~header_skipped /\ size > WavHeader
       IN /\ written' = Append(written, Write(size, skip))
          /\ header_skipped' = (header_skipped \/ skip)
    /\ event' = "chunk_written"
    /\ UNCHANGED <<message_history, pc, raw_json_str, parsed_result, messages,
                   handler, safe_speech, tts_pc, speech, player, tts_calls>>

\* variant: tts has no except clause, the failure reaches the loop's handler
TtsStreamFail_Propagates ==
    /\ tts_pc = "streaming"
    /\ tts_pc' = "idle"
    /\ header_skipped' = FALSE
    /\ written' = <<>>
    /\ message_history' = <<SystemTurn>>
    /\ pc' = "Listening"
    /\ event' = "audio_error"
    /\ handler' = "Exception"
    /\ UNCHANGED <<raw_json_str, parsed_result, messages, safe_speech, speech,
                   player, tts_calls>>

\* iter_bytes() or player.write raises: caught inside tts, which returns
\* without reaching player.close()
TtsStreamFail ==
    /\ tts_pc = "streaming"
    /\ TtsReturn("audio_error")
    /\ UNCHANGED <<safe_speech, speech, player, tts_calls>>

\* the stream ends: player.close()
TtsFinish ==
    /\ tts_pc = "streaming"
    /\ player' = "closed"
    /\ TtsReturn("spoken")
    /\ UNCHANGED <<safe_speech, speech, tts_calls>>

\* tts(None): speech[:200] raises before the try block
SpeakRaise ==
    /\ pc = "Speaking"
    /\ tts_pc = "idle"
    /\ parsed_result.content = None
    /\ speech' = None
    /\ tts_calls' = tts_calls + 1
    /\ ErrorReset("tts_exception")
    /\ UNCHANGED <<raw_json_str, parsed_result, messages, safe_speech,
                   tts_pc, header_skipped, written, player>>

----------------------------------------------------------------------------
Next ==
    \/ \E user_query \in Utterances : ListenOk(user_query)
    \/ ListenSilence
    \/ ListenRequestError
    \/ ListenException
    \/ LLMException
    \/ \E raw \in RawReplies : ParseFail(raw)
    \/ \E raw \in RawReplies : PlanStep(raw)
    \/ \E raw \in RawReplies : ToolStep(raw)
    \/ \E raw \in RawReplies : OutputStep(raw)
    \/ \E raw \in RawReplies : OtherStep(raw)
    \/ DispatchNotFound
    \/ DispatchReturn
    \/ DispatchRaise
    \/ TtsStart
    \/ TtsStartFail
    \/ \E size \in ChunkSizes : TtsChunk(size)
    \/ TtsStreamFail
    \/ TtsFinish
    \/ SpeakRaise

Spec == Init /\ [][Next]_vars

----------------------------------------------------------------------------
(* The loop under the assumptions of its termination argument: the model   *)
(* eventually emits an output step, a dispatched tool returns or raises,   *)
(* and a synthesis call comes to an end.  Nothing is assumed of the other  *)
(* replies of the model.                                                   *)

Dispatch == DispatchNotFound \/ DispatchReturn \/ DispatchRaise

SpeakStep ==
    \/ TtsStart
    \/ TtsStartFail
    \/ \E size \in ChunkSizes : TtsChunk(size)
    \/ TtsStreamFail
    \/ TtsFinish
    \/ SpeakRaise

LiveSpec ==
    /\ Spec
    /\ SF_vars(\E raw \in RawReplies : OutputStep(raw))
    /\ WF_vars(Dispatch)
    /\ WF_vars(SpeakStep)

----------------------------------------------------------------------------
(* tts on its own: the loop has just committed an output step whose content *)
(* is any text of up to MaxSpeechLen characters, or absent                  *)

Text(n) == [i \in 1..n |-> i % 7]

OutputReply(content) == Raw(TRUE, TRUE, Some("output"), content, None, None)

InitTts ==
    \E content \in {None} \cup {Some(Text(n)) : n \in 0..MaxSpeechLen} :
       /\ message_history = <<SystemTurn, UserTurn(<<1>>), AssistantTurn(OutputReply(content))>>
       /\ pc = "Speaking"
       /\ raw_json_str = OutputReply(content)
       /\ parsed_result = OutputReply(content)
       /\ messages = <<SystemTurn, UserTurn(<<1>>)>>
       /\ event = "llm_reply"
       /\ handler = "none"
       /\ safe_speech = None
       /\ tts_pc = "idle"
       /\ speech = None
       /\ header_skipped = FALSE
       /\ written = <<>>
       /\ player = "none"
       /\ tts_calls = 0

NextTts ==
    \/ TtsStart
    \/ TtsStartFail
    \/ \E size \in ChunkSizes : TtsChunk(size)
    \/ TtsStreamFail
    \/ TtsFinish
    \/ SpeakRaise

SpecTts == InitTts /\ [][NextTts]_vars

----------------------------------------------------------------------------
(* Properties of the agent loop *)

IsPrefix(s, t) == Len(s) <= Len(t) /\ SubSeq(t, 1, Len(s)) = s

Last(s) == s[Len(s)]

\* a step in which the model call returned a reply
Replied == pc = "Reasoning" /\ event' = "llm_reply"

\* a reply that is a JSON object whose step is missing or names no known kind
InvalidKind(raw) ==
    /\ raw.json
    /\ \/ raw.step = None
       \/ Lower(raw.step[1]) \notin {"plan", "tool", "output"}

\* C1: a reply that is valid JSON but whose step is missing or is not one of
\* plan/tool/output (case-folded) is handled as a parse failure: nothing is
\* appended to the history and the loop returns to Listening without another
\* model call.
C1_InvalidKindIsParseFailure ==
    [][(Replied /\ InvalidKind(raw_json_str'))
          => (message_history' = message_history /\ pc' = "Listening")]_vars

\* C2: when the reply of a model call fails parsing, the history afterwards is
\* the history that was passed to that call, it is not reset, and the loop
\* goes back to Listening.
C2_ParseFailureKeepsHistory ==
    [][(Replied /\ ~Validates(raw_json_str'))
          => /\ message_history' = messages'
             /\ message_history' = message_history
             /\ handler' # "Exception"
             /\ pc' = "Listening"]_vars

\* a parse failure after a tool step and its observation were committed
C2_Witness ==
    /\ handler = "JSONParseError"
    /\ pc = "Listening"
    /\ Len(message_history) >= 4
    /\ Last(message_history).content.tag = "observe"
    /\ message_history = messages

\* C3: every validated tool step, whatever its tool name and input, yields an
\* observation: the observation turn is appended, the loop returns to
\* Reasoning, and no tool invocation leads to ErrorReset.
C3_DispatchNeverRaises ==
    [][pc = "Dispatching"
          => /\ pc' = "Reasoning"
             /\ handler' # "Exception"
             /\ Len(message_history') = Len(message_history) + 1
             /\ IsPrefix(message_history, message_history')
             /\ Last(message_history').role = "user"
             /\ Last(message_history').content.tag = "observe"]_vars

\* C4: a tool step whose tool name is absent or not a key of the registry
\* invokes no tool; the observation "Error: Tool not found" is appended and
\* the cycle continues in Reasoning.
C4_UnknownToolNotFound ==
    [][(pc = "Dispatching" /\ ~Registered(parsed_result.tool))
          => /\ message_history' = Append(message_history,
                    ObservationTurn(Fmt("Error: Tool not found", <<>>)))
             /\ event' = "tool_not_found"
             /\ handler' = "none"
             /\ pc' = "Reasoning"]_vars

\* the observation for a tool step that names no tool at all
C4_Witness ==
    /\ pc = "Reasoning"
    /\ event = "tool_not_found"
    /\ parsed_result.tool = None
    /\ Last(message_history) = ObservationTurn(Fmt("Error: Tool not found", <<>>))

\* C5: when the model call raises, or any other exception reaches the generic
\* handler, the history becomes the single system turn and the loop listens.
C5_ExceptionResetsHistory ==
    [][((pc = "Reasoning" /\ event' = "llm_exception") \/ handler' = "Exception")
          => (message_history' = <<SystemTurn>> /\ pc' = "Listening")]_vars

\* the model call raised in the middle of a cycle with committed steps
C5_Witness ==
    /\ event = "llm_exception"
    /\ handler = "Exception"
    /\ Len(messages) >= 4
    /\ message_history = <<SystemTurn>>
    /\ pc = "Listening"

\* C6: the history only grows by appending except at an ErrorReset, and
\* ErrorReset is taken only when the model call or listening raises an
\* unclassified exception, never for silence, a transcription service failure,
\* a parse failure, a tool failure or a validated step.
C6_ResetOnlyWhenUnrecoverable ==
    [][/\ (IsPrefix(message_history, message_history') \/ handler' = "Exception")
       /\ (handler' = "Exception"
             => event' \in {"llm_exception", "listen_exception"})]_vars

\* C7: the history is never empty, its first turn is the system turn with the
\* original prompt, and no later turn has role system.
C7_SystemTurnFirstOnly ==
    /\ Len(message_history) >= 1
    /\ message_history[1] = Turn("system", SystemTurn.content)
    /\ message_history[1].content.text = SYSTEM_PROMPT
    /\ \A i \in 2..Len(message_history) : message_history[i].role # "system"

\* a history rebuilt after a reset and grown again to a spoken answer
C7_Witness ==
    /\ event = "spoken"
    /\ Len(message_history) >= 5
    /\ Len(messages) = Len(message_history) - 1
    /\ \E i \in 2..Len(message_history) : message_history[i].content.tag = "observe"

\* C8: when nothing is recognised or the transcription service fails, the
\* history is left as it was, no model call is made, and the loop listens
\* again.
C8_TranscriptionFailureKeepsHistory ==
    [][(pc = "Listening" /\ event' \in {"no_speech", "service_unreachable"})
          => /\ message_history' = message_history
             /\ messages' = messages
             /\ raw_json_str' = raw_json_str
             /\ pc' = "Listening"]_vars

\* silence after a conversation has built up
C8_Witness ==
    /\ event = "no_speech"
    /\ pc = "Listening"
    /\ Len(message_history) >= 3

\* C9 as stated: a "service unreachable" failure takes ErrorReset (the history
\* is rebuilt to the system turn), "no speech recognized" only re-listens.
C9_ServiceFailureResets ==
    [][/\ (pc = "Listening" /\ event' = "service_unreachable")
             => (handler' = "Exception" /\ message_history' = <<SystemTurn>>)
       /\ (pc = "Listening" /\ event' = "no_speech")
             => (handler' # "Exception" /\ message_history' = message_history)]_vars

\* C9 amended: a "service unreachable" failure is caught by its own except
\* clause: no ErrorReset, the history is retained and the loop re-listens,
\* as for "no speech recognized".
C9_ServiceFailureRelistens ==
    [][/\ (pc = "Listening" /\ event' = "service_unreachable")
             => /\ handler' = "RequestError"
                /\ message_history' = message_history
                /\ pc' = "Listening"
       /\ (pc = "Listening" /\ event' = "no_speech")
             => /\ handler' = "UnknownValueError"
                /\ message_history' = message_history
                /\ pc' = "Listening"]_vars

\* the service failed while the history held a conversation
C9_Witness ==
    /\ event = "service_unreachable"
    /\ handler = "RequestError"
    /\ pc = "Listening"
    /\ Len(message_history) >= 3

\* C10: for every validated output step, content present or absent, the
\* assistant turn is appended, the loop enters Speaking, the content is handed
\* to speech synthesis, and the loop returns to Listening with the history
\* retained.
C10_OutputStepSpeaksAndKeepsHistory ==
    [][/\ (Replied /\ Validates(raw_json_str') /\ step_type(raw_json_str') = "output")
             => /\ message_history' = Append(message_history, AssistantTurn(raw_json_str'))
                /\ pc' = "Speaking"
       /\ pc = "Speaking"
             => /\ message_history' = message_history
                /\ safe_speech' = Some(Slice(IF parsed_result.content = None THEN <<>>
                                             ELSE parsed_result.content[1], TtsLimit))
                /\ handler' # "Exception"
                /\ pc' \in {"Speaking", "Listening"}]_vars

IsToolTurn(t) ==
    /\ t.role = "assistant"
    /\ t.content.tag = "raw"
    /\ Validates(t.content.raw)
    /\ step_type(t.content.raw) = "tool"

IsObservation(t) == t.role = "user" /\ t.content.tag = "observe"

\* a step in which tts is called
TtsInvoked == tts_calls' = tts_calls + 1

\* C11: a plan step never ends the cycle and never produces speech: after a
\* validated plan step the next action is a model call; tts is called only for
\* a validated output step, at most once per cycle, with that step's content.
C11_PlanContinuesOnlyOutputSpeaks ==
    [][/\ (Replied /\ Validates(raw_json_str') /\ step_type(raw_json_str') = "plan")
             => /\ pc' = "Reasoning"
                /\ ~TtsInvoked
                /\ UNCHANGED <<safe_speech, speech, tts_pc>>
       /\ pc = "Reasoning" => event' \in {"llm_reply", "llm_exception"}
       /\ TtsInvoked
             => /\ pc = "Speaking"
                /\ step_type(parsed_result) = "output"
                /\ Last(message_history) = AssistantTurn(parsed_result)
                /\ speech' = parsed_result.content
                /\ tts_calls' = 1]_vars

\* a plan step was just committed and nothing has been spoken in the cycle
C11_Witness ==
    /\ pc = "Reasoning"
    /\ event = "llm_reply"
    /\ Validates(parsed_result)
    /\ step_type(parsed_result) = "plan"
    /\ Last(message_history) = AssistantTurn(parsed_result)
    /\ tts_calls = 0

\* C12: the synthesis service is never sent more than 200 characters: the
\* submitted input is the first 200 characters of a longer text and the text
\* itself otherwise.
C12_SubmittedTextTruncated ==
    /\ (tts_calls > 0 /\ speech # None) => safe_speech # None
    /\ safe_speech # None
          => /\ speech # None
             /\ Len(safe_speech[1]) <= 200
             /\ Len(speech[1]) > 200
                   => /\ Len(safe_speech[1]) = 200
                      /\ safe_speech[1] = SubSeq(speech[1], 1, 200)
             /\ Len(speech[1]) <= 200 => safe_speech[1] = speech[1]

\* a text longer than the limit was submitted
C12_Witness ==
    /\ speech # None
    /\ safe_speech # None
    /\ Len(speech[1]) > 200
    /\ Len(safe_speech[1]) = 200

\* C13: every observation turn sits immediately after an assistant turn that
\* holds a tool step, and every committed tool step is followed by its one
\* observation before the next model call.
C13_ObservationFollowsToolStep ==
    \A i \in 1..Len(message_history) :
       /\ IsObservation(message_history[i])
             => (i > 1 /\ IsToolTurn(message_history[i - 1]))
       /\ IsToolTurn(message_history[i])
             => IF i = Len(message_history)
                THEN pc = "Dispatching"
                ELSE IsObservation(message_history[i + 1])

\* a tool step, its observation, and a later turn
C13_Witness ==
    \E i \in 1..Len(message_history) :
       /\ i + 1 < Len(message_history)
       /\ IsToolTurn(message_history[i])
       /\ IsObservation(message_history[i + 1])

\* C14: model calls are sequential: a call is made only once the previous
\* reply is committed (with its observation for a tool step) or at the start
\* of a cycle, and it is passed the whole history in order.
C14_CallSeesCommittedHistory ==
    [][(pc = "Reasoning" /\ event' \in {"llm_reply", "llm_exception"})
          => /\ messages' = message_history
             /\ event \in {"recognized", "llm_reply", "tool_returned", "tool_not_found"}
             /\ event = "recognized"
                   => /\ Last(message_history).role = "user"
                      /\ Last(message_history).content.tag = "text"
             /\ event = "llm_reply"
                   => message_history = Append(messages, AssistantTurn(raw_json_str))
             /\ event \in {"tool_returned", "tool_not_found"}
                   => /\ Len(message_history) = Len(messages) + 2
                      /\ IsPrefix(Append(messages, AssistantTurn(raw_json_str)), message_history)
                      /\ IsObservation(Last(message_history))]_vars

\* a call that was passed a history ending in an observation
C14_Witness ==
    /\ event = "llm_reply"
    /\ Len(messages) >= 4
    /\ IsObservation(Last(messages))
    /\ IsToolTurn(messages[Len(messages) - 1])

InCycle(p) == p \in {"Reasoning", "Dispatching"}

\* C15: the Reasoning/Dispatching cycle is left only on an output step, a
\* parse failure or an exception, and when the model eventually emits an
\* output step (and tools and synthesis return) every started cycle returns
\* to Listening.
C15_CycleEndsOnlyByOutputFailureOrException ==
    /\ [][(InCycle(pc) /\ ~InCycle(pc'))
             => \/ /\ Replied
                   /\ Validates(raw_json_str')
                   /\ step_type(raw_json_str') = "output"
                   /\ pc' = "Speaking"
                \/ /\ Replied
                   /\ ~Validates(raw_json_str')
                   /\ pc' = "Listening"
                \/ /\ handler' = "Exception"
                   /\ pc' = "Listening"]_vars
    /\ (pc = "Reasoning") ~> (pc = "Listening")

\* a cycle that has made as many plan steps as the history bound admits
C15_Witness ==
    /\ pc = "Reasoning"
    /\ Len(message_history) = MaxHistory - 1
    /\ message_history[2].role = "user"
    /\ \A i \in 3..Len(message_history) :
          /\ message_history[i].role = "assistant"
          /\ step_type(message_history[i].content.raw) = "plan"

ListenEvents == {"recognized", "no_speech", "service_unreachable", "listen_exception"}

\* C16: the loop is turn-based: the microphone is read only in Listening,
\* never during a reasoning cycle, a tool dispatch or a synthesis; once a
\* synthesis has started the next listen comes after it completed or failed.
C16_ListenOnlyWhenIdle ==
    [][/\ event' \in ListenEvents => (pc = "Listening" /\ tts_pc = "idle")
       /\ tts_pc' # "idle" => pc' = "Speaking"
       /\ (tts_pc # "idle" /\ tts_pc' = "idle")
             => (event' \in {"spoken", "audio_error"} /\ pc' = "Listening")]_vars

\* an utterance heard after a synthesis that ran to its end
C16_Witness ==
    /\ event = "recognized"
    /\ pc = "Reasoning"
    /\ player = "closed"
    /\ safe_speech # None
    /\ tts_pc = "idle"

\* C17: the 44-byte header is removed from the first chunk of a response
\* only: no later chunk has bytes dropped, each is written whole, in order.
C17_OnlyFirstChunkStripped ==
    \A i \in 2..Len(written) : written[i].dropped = 0

\* C18: the audio output is opened at most once per response and, once
\* opened, is closed before tts returns, on success and on a failure of
\* streaming or of a write.
C18_PlayerClosedOnReturn ==
    [][/\ (player' = "open" /\ ~TtsInvoked) => player = "open"
       /\ (tts_pc = "streaming" /\ tts_pc' = "idle") => player' = "closed"]_vars

IsOutputTurn(t) ==
    /\ t.role = "assistant"
    /\ Validates(t.content.raw)
    /\ step_type(t.content.raw) = "output"

\* the cycle whose last model call got an unparsable reply was abandoned
AbandonedByParseFailure ==
    /\ pc = "Listening"
    /\ ~Validates(raw_json_str)
    /\ message_history = messages

\* C19: a user turn is removed only by an ErrorReset; after a parse failure
\* the turns of the abandoned cycle stay, so the next cycle's history is the
\* one the failed call was given followed directly by the new user turn, with
\* no assistant output turn after the old user turn.
C19_AbandonedCycleStaysInHistory ==
    [][/\ ~IsPrefix(message_history, message_history')
             => (handler' = "Exception" /\ message_history' = <<SystemTurn>>)
       /\ (AbandonedByParseFailure /\ event' = "recognized")
             => /\ Len(message_history') = Len(messages) + 1
                /\ IsPrefix(messages, message_history')
                /\ Last(message_history').role = "user"
                /\ Last(message_history').content.tag = "text"
                /\ \E k \in 2..Len(messages) :
                      /\ messages[k].role = "user"
                      /\ messages[k].content.tag = "text"
                      /\ \A i \in (k + 1)..Len(messages) : ~IsOutputTurn(message_history'[i])]_vars

\* a new utterance directly after the unanswered one
C19_Witness ==
    /\ event = "recognized"
    /\ ~Validates(raw_json_str)
    /\ Len(message_history) = Len(messages) + 1
    /\ IsPrefix(messages, message_history)
    /\ Last(messages).role = "user"
    /\ Last(messages).content.tag = "text"
    /\ Last(message_history).role = "user"

\* C20: for an output step with content, a failure of the request, of chunk
\* streaming or of playback stays inside tts: the generic handler is not
\* reached, the history keeps the assistant output turn, the loop listens.
C20_AudioFailureContained ==
    [][(pc = "Speaking" /\ parsed_result.content # None)
          => /\ handler' # "Exception"
             /\ message_history' = message_history
             /\ event' = "audio_error"
                   => /\ pc' = "Listening"
                      /\ tts_pc' = "idle"
                      /\ step_type(parsed_result) = "output"
                      /\ Last(message_history') = AssistantTurn(parsed_result)]_vars

\* streaming failed after the audio output was opened
C20_Witness ==
    /\ event = "audio_error"
    /\ pc = "Listening"
    /\ player = "open"
    /\ parsed_result.content # None
    /\ Last(message_history) = AssistantTurn(parsed_result)

====
